---- MODULE Spec2Model ----
(***************************************************************************)
(* Session and message lifecycle of the chat client (frontend/src/App.jsx). *)
(*                                                                         *)
(* The component state (prompt, messages, chatSessions, isLoading), the    *)
(* identity signal, the browser's localStorage entry "chatSessions" and    *)
(* the asynchronous handlers fetchChatHistory, handleNewChat and           *)
(* handleSubmit.  A handler invocation is a closure over the state of the  *)
(* render it was created in: the part of handleSubmit that runs after an   *)
(* await still uses the newMessages and prompt captured when it started.   *)
(***************************************************************************)
EXTENDS Integers, Sequences, FiniteSets, TLC

VARIABLES
    prompt,        \* useState("")    : pending input, a sequence of characters
    messages,      \* useState([])    : the transcript buffer
    chatSessions,  \* useState([])    : the in-memory session archive
    isLoading,     \* useState(false) : the loading flag
    user,          \* AuthContext     : TRUE iff the identity is present
    localStorage,  \* the value stored under "chatSessions": <<>> (no entry) or <<value>>
    submits,       \* the accepted handleSubmit invocations, in order of acceptance
    histPending,   \* number of fetchChatHistory invocations awaiting their response
    net,           \* the requests issued so far, per endpoint
    now,           \* the clock: the number of readings of new Date() so far
    last           \* the handler step taken last (observation only; typing is no step)

vars == <<prompt, messages, chatSessions, isLoading, user, localStorage,
          submits, histPending, net, now, last>>

----------------------------------------------------------------------------
(* Constants of the program and bounds of the model *)

maxMessagesPerSession == 20

MaxEvents == 3     \* logins, accepted submits and archived sessions in one run, together
MaxRecords == 20   \* records in the largest history response

\* the values the input field can take (onChange)
PromptInputs == { <<>>, <<" ">>, <<"a", " ">> }

\* the reply texts the generation service can return
Replies == { <<"h", "i">> }

----------------------------------------------------------------------------
(* Values *)

\* new Date(): a Date object holding the clock's value; two readings of the
\* clock are taken at least one unit of time apart
DateAt(t) == [kind |-> "Date", t |-> t]

\* a timestamp as the history store returns it: a string in ISO format
IsoString(t) == [kind |-> "string", t |-> t]

Message(text, isUser, timestamp) ==
    [text |-> text, isUser |-> isUser, timestamp |-> timestamp]

\* String.prototype.trim on a sequence of characters
RECURSIVE TrimStart(_)
TrimStart(s) ==
    IF s = <<>> THEN <<>>
    ELSE IF Head(s) = " " THEN TrimStart(Tail(s)) ELSE s

RECURSIVE TrimEnd(_)
TrimEnd(s) ==
    IF s = <<>> THEN <<>>
    ELSE IF s[Len(s)] = " " THEN TrimEnd(SubSeq(s, 1, Len(s) - 1)) ELSE s

Trim(s) == TrimEnd(TrimStart(s))

\* JSON.stringify of one message: the keys in creation order; a Date is
\* written by toJSON as its ISO string, a string as itself
StringifyMessage(m) == <<"text", m.text, "isUser", m.isUser, "timestamp", m.timestamp.t>>

\* JSON.stringify of an array of messages
Stringify(msgs) == [i \in 1..Len(msgs) |-> StringifyMessage(msgs[i])]

\* JSON.stringify of the archive (an array of arrays of messages)
StringifySessions(sessions) == [i \in 1..Len(sessions) |-> Stringify(sessions[i])]

----------------------------------------------------------------------------
(* Responses of the remote endpoints *)

\* the history store answers with n records {prompt, response, timestamp}:
\* none, enough to leave room for one more exchange, or MaxRecords; the
\* k-th record carries the k-th timestamp
HistoryRecord(k) == [prompt |-> <<"a">>, response |-> <<"h", "i">>, timestamp |-> IsoString(k)]

HistorySizes == {0, maxMessagesPerSession \div 2 - 1, MaxRecords}

HistoryData == { [i \in 1..n |-> HistoryRecord(i)] : n \in HistorySizes }

\* fetch + response.json() of the history request: a decoded array, or a throw
HistoryResponses ==
    { [ok |-> TRUE, data |-> d] : d \in HistoryData } \cup { [ok |-> FALSE, data |-> <<>>] }

\* one candidate of a generation response; hasText is FALSE when
\* content.parts[0] is missing, so that reading .text throws
Candidate(hasText, text) == [hasText |-> hasText, text |-> text]

\* data of a generation response
GenData(hasCandidates, candidates) ==
    [hasCandidates |-> hasCandidates, candidates |-> candidates]

\* fetch + response.json() of the generation request
GenResponses ==
    { [ok |-> FALSE, data |-> GenData(FALSE, <<>>)] }                       \* fetch or json() rejects
    \cup { [ok |-> TRUE, data |-> GenData(FALSE, <<>>)] }                   \* no candidates member
    \cup { [ok |-> TRUE, data |-> GenData(TRUE, <<>>)] }                    \* candidates: []
    \cup { [ok |-> TRUE, data |-> GenData(TRUE, <<Candidate(FALSE, <<>>)>>)] }
    \cup { [ok |-> TRUE, data |-> GenData(TRUE, <<Candidate(TRUE, r)>>)] : r \in Replies }

----------------------------------------------------------------------------
(* Initial state: the component as mounted *)

\* the logins, accepted submits and archived sessions so far
Events == net.history + Len(submits) + Len(chatSessions)

\* what is left of an invocation's closure once it has returned
NoClosure == [stage |-> "done", newMessages |-> <<>>, prompt |-> <<>>]

\* the value of `last`: the handler step, the submit it belongs to (0: none)
\* and how the step came out
Step(op, id, out) == [op |-> op, id |-> id, out |-> out]

Init ==
    /\ prompt = <<>>
    /\ messages = <<>>
    /\ chatSessions = <<>>
    /\ isLoading = FALSE
    /\ user = FALSE
    /\ localStorage = <<>>
    /\ submits = <<>>
    /\ histPending = 0
    /\ net = [generate |-> <<>>, save |-> <<>>, history |-> 0]
    /\ now = 0
    /\ last = Step("mount", 0, "")

----------------------------------------------------------------------------
(* Input field *)

\* onChange of the input field (the form is rendered only while user is set)
SetPrompt ==
    /\ user
    /\ \E p \in PromptInputs :
        /\ p # prompt
        /\ prompt' = p
    /\ UNCHANGED <<messages, chatSessions, isLoading, user, localStorage,
                   submits, histPending, net, now, last>>

----------------------------------------------------------------------------
(* History loader: the effect on [user] *)

\* the identity becomes present: the effect runs and calls fetchChatHistory,
\* which suspends at its fetch
Login ==
    /\ ~user
    /\ Events < MaxEvents
    /\ user' = TRUE
    /\ histPending' = histPending + 1
    /\ net' = [net EXCEPT !.history = @ + 1]
    /\ last' = Step("login", 0, "")
    /\ UNCHANGED <<prompt, messages, chatSessions, isLoading, localStorage, submits, now>>

\* Logout with the effect calling fetchChatHistory whatever user is
LogoutFetchesHistory ==
    /\ user
    /\ Events < MaxEvents
    /\ user' = FALSE
    /\ histPending' = histPending + 1
    /\ net' = [net EXCEPT !.history = @ + 1]
    /\ last' = Step("logout", 0, "")
    /\ UNCHANGED <<prompt, messages, chatSessions, isLoading, localStorage, submits, now>>

\* the identity becomes absent: the effect runs and returns at once
Logout ==
    /\ user
    /\ user' = FALSE
    /\ last' = Step("logout", 0, "")
    /\ UNCHANGED <<prompt, messages, chatSessions, isLoading, localStorage,
                   submits, histPending, net, now>>

\* ExpandHistory putting the latest record first
RECURSIVE ExpandHistoryLatestFirst(_)
ExpandHistoryLatestFirst(data) ==
    IF data = <<>> THEN <<>>
    ELSE ExpandHistoryLatestFirst(Tail(data))
         \o << Message(Head(data).prompt, TRUE, Head(data).timestamp),
               Message(Head(data).response, FALSE, Head(data).timestamp) >>

\* data.map(...) followed by .flat(): two messages per record, in order
RECURSIVE ExpandHistory(_)
ExpandHistory(data) ==
    IF data = <<>> THEN <<>>
    ELSE << Message(Head(data).prompt, TRUE, Head(data).timestamp),
            Message(Head(data).response, FALSE, Head(data).timestamp) >>
         \o ExpandHistory(Tail(data))

\* HistorySettle with setMessages([]) in its catch block
HistorySettleClearsOnFailure(r) ==
    /\ histPending > 0
    /\ histPending' = histPending - 1
    /\ IF r.ok
       THEN /\ messages' = ExpandHistory(r.data)
            /\ last' = Step("historySettle", 0, "seeded")
       ELSE /\ messages' = <<>>
            /\ last' = Step("historySettle", 0, "failed")
    /\ UNCHANGED <<prompt, chatSessions, isLoading, user, localStorage, submits, net, now>>

\* the rest of fetchChatHistory, once its request has settled with r
HistorySettle(r) ==
    /\ histPending > 0
    /\ histPending' = histPending - 1
    /\ IF r.ok
       THEN /\ messages' = ExpandHistory(r.data)
            /\ last' = Step("historySettle", 0, "seeded")
       ELSE /\ messages' = messages          \* catch: console.error
            /\ last' = Step("historySettle", 0, "failed")
    /\ UNCHANGED <<prompt, chatSessions, isLoading, user, localStorage, submits, net, now>>

----------------------------------------------------------------------------
(* Session manager *)

\* FindIndex with the comparison lost: no archived session is ever found
FindIndexNeverFound(sessions, msgs) == -1

\* chatSessions.findIndex(session => JSON.stringify(session) === JSON.stringify(messages))
FindIndex(sessions, msgs) ==
    LET hits == { i \in 1..Len(sessions) : Stringify(sessions[i]) = Stringify(msgs) }
    IN  IF hits = {} THEN -1
        ELSE (CHOOSE i \in hits : \A j \in hits : i <= j) - 1

\* handleNewChat persisting chatSessions as it was before the append
handleNewChatPersistsStale ==
    /\ user
    /\ IF Len(messages) > 0
       THEN IF FindIndex(chatSessions, messages) = -1
            THEN /\ Events < MaxEvents
                 /\ chatSessions' = Append(chatSessions, messages)
                 /\ localStorage' = << StringifySessions(chatSessions) >>
                 /\ last' = Step("handleNewChat", 0, "archived")
            ELSE /\ UNCHANGED <<chatSessions, localStorage>>
                 /\ last' = Step("handleNewChat", 0, "duplicate")
       ELSE /\ UNCHANGED <<chatSessions, localStorage>>
            /\ last' = Step("handleNewChat", 0, "empty")
    /\ messages' = <<>>
    /\ UNCHANGED <<prompt, isLoading, user, submits, histPending, net, now>>

\* handleNewChat without its test of messages.length
handleNewChatArchivesEmpty ==
    /\ user
    /\ IF FindIndex(chatSessions, messages) = -1
       THEN /\ Events < MaxEvents
            /\ LET updatedSessions == Append(chatSessions, messages)
               IN  /\ chatSessions' = updatedSessions
                   /\ localStorage' = << StringifySessions(updatedSessions) >>
            /\ last' = Step("handleNewChat", 0, IF Len(messages) > 0 THEN "archived" ELSE "empty")
       ELSE /\ UNCHANGED <<chatSessions, localStorage>>
            /\ last' = Step("handleNewChat", 0, "duplicate")
    /\ messages' = <<>>
    /\ UNCHANGED <<prompt, isLoading, user, submits, histPending, net, now>>

\* the "new chat" button of the sidebar (rendered only while user is set)
handleNewChat ==
    /\ user
    /\ IF Len(messages) > 0
       THEN IF FindIndex(chatSessions, messages) = -1
            THEN /\ Events < MaxEvents
                 /\ LET updatedSessions == Append(chatSessions, messages)
                    IN  /\ chatSessions' = updatedSessions
                        /\ localStorage' = << StringifySessions(updatedSessions) >>
                 /\ last' = Step("handleNewChat", 0, "archived")
            ELSE /\ UNCHANGED <<chatSessions, localStorage>>
                 /\ last' = Step("handleNewChat", 0, "duplicate")
       ELSE /\ UNCHANGED <<chatSessions, localStorage>>
            /\ last' = Step("handleNewChat", 0, "empty")
    /\ messages' = <<>>
    /\ UNCHANGED <<prompt, isLoading, user, submits, histPending, net, now>>

\* the sidebar puts an archived session back into the buffer (setMessages)
RestoreSession ==
    /\ user
    /\ \E i \in 1..Len(chatSessions) : messages' = chatSessions[i]
    /\ last' = Step("restoreSession", 0, "")
    /\ UNCHANGED <<prompt, chatSessions, isLoading, user, localStorage,
                   submits, histPending, net, now>>

----------------------------------------------------------------------------
(* Exchange orchestrator: handleSubmit *)

\* handleSubmit returns before it has changed anything
SubmitReturns(why) ==
    /\ last' = Step("handleSubmit", 0, why)
    /\ UNCHANGED <<prompt, messages, isLoading, submits, net, now>>

\* SubmitAccepted without setIsLoading(true)
SubmitAcceptedLeavesLoading ==
    /\ Events < MaxEvents
    /\ last' = Step("handleSubmit", Len(submits) + 1, "accepted")
    /\ LET newMessages == Append(messages, Message(prompt, TRUE, DateAt(now)))
       IN  /\ messages' = newMessages
           /\ submits' = Append(submits, [stage |-> "generate",
                                          newMessages |-> newMessages,
                                          prompt |-> prompt])
    /\ now' = now + 1
    /\ prompt' = <<>>
    /\ isLoading' = isLoading
    /\ net' = [net EXCEPT !.generate = Append(@, [id |-> Len(submits) + 1,
                                                  text |-> prompt])]

\* handleSubmit past its three checks: the user message is appended, the
\* input is cleared, the flag is set and the generation request is issued
SubmitAccepted ==
    /\ Events < MaxEvents
    /\ last' = Step("handleSubmit", Len(submits) + 1, "accepted")
    /\ LET newMessages == Append(messages, Message(prompt, TRUE, DateAt(now)))
       IN  /\ messages' = newMessages
           /\ submits' = Append(submits, [stage |-> "generate",
                                          newMessages |-> newMessages,
                                          prompt |-> prompt])
    /\ now' = now + 1
    /\ prompt' = <<>>
    /\ isLoading' = TRUE
    /\ net' = [net EXCEPT !.generate = Append(@, [id |-> Len(submits) + 1,
                                                  text |-> prompt])]

\* handleSubmit without its limit check
handleSubmitNoLimit ==
    /\ IF ~user
       THEN SubmitReturns("unauthenticated")
       ELSE IF Trim(prompt) = <<>>
       THEN SubmitReturns("blank")
       ELSE SubmitAccepted
    /\ UNCHANGED <<chatSessions, user, localStorage, histPending>>

\* handleSubmit testing !prompt instead of !prompt.trim()
handleSubmitNoTrim ==
    /\ IF ~user
       THEN SubmitReturns("unauthenticated")
       ELSE IF prompt = <<>>
       THEN SubmitReturns("blank")
       ELSE IF Len(messages) >= maxMessagesPerSession
       THEN SubmitReturns("limit")
       ELSE SubmitAccepted
    /\ UNCHANGED <<chatSessions, user, localStorage, histPending>>

\* handleSubmit testing messages.length > maxMessagesPerSession
handleSubmitLimitOffByOne ==
    /\ IF ~user
       THEN SubmitReturns("unauthenticated")
       ELSE IF Trim(prompt) = <<>>
       THEN SubmitReturns("blank")
       ELSE IF Len(messages) > maxMessagesPerSession
       THEN SubmitReturns("limit")
       ELSE SubmitAccepted
    /\ UNCHANGED <<chatSessions, user, localStorage, histPending>>

\* handleSubmit up to its first await.  The guard on user is modelled as
\* written, although the form that calls the handler is rendered only while
\* user is set.
handleSubmit ==
    /\ IF ~user
       THEN SubmitReturns("unauthenticated")
       ELSE IF Trim(prompt) = <<>>
       THEN SubmitReturns("blank")
       ELSE IF Len(messages) >= maxMessagesPerSession
       THEN SubmitReturns("limit")                                \* alert(...)
       ELSE SubmitAccepted
    /\ UNCHANGED <<chatSessions, user, localStorage, histPending>>

\* data.candidates && data.candidates.length > 0
HasCandidates(data) == data.hasCandidates /\ Len(data.candidates) > 0

\* the branch of a usable reply: the bot message is appended to the
\* newMessages of this invocation, the persistence request is issued and
\* awaited
ReplyReceived(i, botReply) ==
    /\ messages' = Append(submits[i].newMessages, Message(botReply, FALSE, DateAt(now)))
    /\ net' = [net EXCEPT !.save = Append(@, [id |-> i,
                                              prompt |-> submits[i].prompt,
                                              response |-> botReply])]
    /\ submits' = [submits EXCEPT ![i].stage = "save"]
    /\ now' = now + 1
    /\ last' = Step("generateSettle", i, "reply")
    /\ UNCHANGED isLoading

\* NoReply sending the generation request once more after a first failure
NoReplyRetries(i) ==
    IF Cardinality({ k \in 1..Len(net.generate) : net.generate[k].id = i }) < 2
    THEN /\ net' = [net EXCEPT !.generate = Append(@, [id |-> i, text |-> submits[i].prompt])]
         /\ last' = Step("generateSettle", i, "failed")
         /\ UNCHANGED <<messages, now, isLoading, submits>>
    ELSE /\ isLoading' = FALSE
         /\ submits' = [submits EXCEPT ![i] = NoClosure]
         /\ last' = Step("generateSettle", i, "failed")
         /\ UNCHANGED <<messages, net, now>>

\* the else branch (no candidates) and the catch (the fetch, json() or the
\* reading of the reply text threw): console.error, then finally
NoReply(i) ==
    /\ isLoading' = FALSE
    /\ submits' = [submits EXCEPT ![i] = NoClosure]
    /\ last' = Step("generateSettle", i, "failed")
    /\ UNCHANGED <<messages, net, now>>

\* GenerateSettle with setIsLoading(false) at the end of the try block
\* instead of in finally
GenerateSettleNoFinally(i, r) ==
    /\ i \in 1..Len(submits)
    /\ submits[i].stage = "generate"
    /\ IF r.ok /\ HasCandidates(r.data) /\ r.data.candidates[1].hasText
       THEN ReplyReceived(i, r.data.candidates[1].text)
       ELSE IF r.ok
       THEN NoReply(i)
       ELSE /\ submits' = [submits EXCEPT ![i] = NoClosure]
            /\ last' = Step("generateSettle", i, "failed")
            /\ UNCHANGED <<messages, net, now, isLoading>>
    /\ UNCHANGED <<prompt, chatSessions, user, localStorage, histPending>>

\* GenerateSettle sending the prompt of the input field, which handleSubmit
\* has cleared, to the persistence store
GenerateSettleSavesInput(i, r) ==
    /\ i \in 1..Len(submits)
    /\ submits[i].stage = "generate"
    /\ IF r.ok /\ HasCandidates(r.data) /\ r.data.candidates[1].hasText
       THEN LET botReply == r.data.candidates[1].text
            IN  /\ messages' = Append(submits[i].newMessages,
                                      Message(botReply, FALSE, DateAt(now)))
                /\ net' = [net EXCEPT !.save = Append(@, [id |-> i,
                                                          prompt |-> prompt,
                                                          response |-> botReply])]
                /\ submits' = [submits EXCEPT ![i].stage = "save"]
                /\ now' = now + 1
                /\ last' = Step("generateSettle", i, "reply")
                /\ UNCHANGED isLoading
       ELSE NoReply(i)
    /\ UNCHANGED <<prompt, chatSessions, user, localStorage, histPending>>

\* GenerateSettle showing a failure as a bot message
GenerateSettleShowsError(i, r) ==
    /\ i \in 1..Len(submits)
    /\ submits[i].stage = "generate"
    /\ IF r.ok /\ HasCandidates(r.data) /\ r.data.candidates[1].hasText
       THEN ReplyReceived(i, r.data.candidates[1].text)
       ELSE /\ messages' = Append(submits[i].newMessages,
                                  Message(<<"?">>, FALSE, DateAt(now)))
            /\ isLoading' = FALSE
            /\ submits' = [submits EXCEPT ![i] = NoClosure]
            /\ last' = Step("generateSettle", i, "failed")
            /\ now' = now + 1
            /\ UNCHANGED net
    /\ UNCHANGED <<prompt, chatSessions, user, localStorage, histPending>>

\* handleSubmit of submit i, from the settling of its generation request
\* with r to its next await or to its end
GenerateSettle(i, r) ==
    /\ i \in 1..Len(submits)
    /\ submits[i].stage = "generate"
    /\ IF r.ok /\ HasCandidates(r.data) /\ r.data.candidates[1].hasText
       THEN ReplyReceived(i, r.data.candidates[1].text)
       ELSE NoReply(i)
    /\ UNCHANGED <<prompt, chatSessions, user, localStorage, histPending>>

\* handleSubmit of submit i, from the settling of its persistence request
\* to its end: nothing reads the response; a rejection (ok = FALSE) is
\* caught and logged; then finally
SaveSettle(i, ok) ==
    /\ i \in 1..Len(submits)
    /\ submits[i].stage = "save"
    /\ isLoading' = FALSE
    /\ submits' = [submits EXCEPT ![i] = NoClosure]
    /\ last' = Step("saveSettle", i, IF ok THEN "resolved" ELSE "rejected")
    /\ UNCHANGED <<prompt, messages, chatSessions, user, localStorage,
                   histPending, net, now>>

----------------------------------------------------------------------------

Next ==
    \/ SetPrompt
    \/ Login
    \/ Logout
    \/ \E r \in HistoryResponses : HistorySettle(r)
    \/ handleNewChat
    \/ RestoreSession
    \/ handleSubmit
    \/ \E i \in 1..MaxEvents, r \in GenResponses : GenerateSettle(i, r)
    \/ \E i \in 1..MaxEvents, ok \in BOOLEAN : SaveSettle(i, ok)

Spec == Init /\ [][Next]_vars

\* the page is loaded again: the component is constructed anew from its
\* useState initial values, the closures and the pending requests of the
\* old page are gone, and the identity is absent until it is set again;
\* the browser keeps localStorage
Reload ==
    /\ prompt' = <<>>
    /\ messages' = <<>>
    /\ chatSessions' = <<>>
    /\ isLoading' = FALSE
    /\ user' = FALSE
    /\ submits' = [i \in 1..Len(submits) |-> NoClosure]
    /\ histPending' = 0
    /\ last' = Step("reload", 0, "")
    /\ UNCHANGED <<localStorage, net, now>>

NextReload ==
    \/ Next
    \/ Reload

\* the program over several page loads
SpecReload == Init /\ [][NextReload]_vars

\* every request that was issued is answered or fails
NetworkSettles ==
    /\ \A i \in 1..MaxEvents : WF_vars(\E r \in GenResponses : GenerateSettle(i, r))
    /\ \A i \in 1..MaxEvents : WF_vars(\E ok \in BOOLEAN : SaveSettle(i, ok))

FairSpec == Spec /\ NetworkSettles

----------------------------------------------------------------------------
(* Vocabulary of the properties *)

\* submit i has been accepted and has not returned yet
Pending(i) == i \in 1..Len(submits) /\ submits[i].stage \in {"generate", "save"}

\* submit i has returned
Completed(i) == i \in 1..Len(submits) /\ submits[i].stage = "done"

\* submit i is suspended at its persistence request
AwaitingPersistence(i) == i \in 1..Len(submits) /\ submits[i].stage = "save"

\* the generation call failed at the transport level
TransportFailure(r) == ~r.ok

\* the generation call returned a response with missing or empty candidates
MissingOrEmptyCandidates(r) ==
    r.ok /\ (~r.data.hasCandidates \/ r.data.candidates = <<>>)

\* the generation call returned a reply with extractable text
WellFormed(r) ==
    r.ok /\ r.data.hasCandidates /\ r.data.candidates # <<>> /\ r.data.candidates[1].hasText

\* a prompt that is empty or holds white space only
Blank(p) == \A k \in 1..Len(p) : p[k] = " "

\* number of user-authored messages of a buffer
UserTurns(msgs) == Cardinality({ k \in 1..Len(msgs) : msgs[k].isUser })

\* number of user messages of a buffer that no bot message follows
Unanswered(msgs) ==
    Cardinality({ k \in 1..Len(msgs) :
                    msgs[k].isUser /\ (k = Len(msgs) \/ msgs[k + 1].isUser) })

\* every message of the buffer comes from the history store
SeededOnly(msgs) == \A k \in 1..Len(msgs) : msgs[k].timestamp.kind = "string"

\* the persistence requests issued for submit i
SavesOf(i) == { k \in 1..Len(net.save) : net.save[k].id = i }

----------------------------------------------------------------------------
(* C1..C5 *)

\* C1: in every reachable state the transcript buffer holds at most
\* maxMessagesPerSession (20) messages.
C1_BufferWithinLimit == Len(messages) <= maxMessagesPerSession

\* C2: every accepted submit eventually completes, and with the loading flag
\* false, whatever the generation call and the persistence call answer, if
\* every issued call eventually settles.
C2_SubmitCompletes ==
    \A i \in 1..MaxEvents : Pending(i) ~> (Completed(i) /\ ~isLoading)

\* a submit has completed after its persistence call was rejected
C2_Witness ==
    /\ last.op = "saveSettle" /\ last.out = "rejected"
    /\ Completed(last.id)
    /\ ~isLoading

\* C3: once the bot reply has been appended the submit completes without
\* waiting for the persistence call: no submit is ever suspended at it.
C3_PersistenceNotAwaited ==
    \A i \in 1..Len(submits) : ~AwaitingPersistence(i)

\* C4: a well-formed reply to submit i puts the bot message with the reply
\* text right after the user message of submit i, which is the last message
\* of the buffer the submit started from, and issues exactly one persistence
\* call, carrying that prompt and that reply; the settling of the persistence
\* call, resolved or rejected, leaves the buffer as it is.
C4_ReplyAppendedAndPersisted ==
    [][ /\ \A i \in 1..MaxEvents, r \in GenResponses :
            (GenerateSettle(i, r) /\ WellFormed(r)) =>
                LET n == Len(messages')
                    reply == r.data.candidates[1].text
                IN  /\ n = Len(submits[i].newMessages) + 1
                    /\ SubSeq(messages', 1, n - 1) = submits[i].newMessages
                    /\ messages'[n - 1].isUser
                    /\ messages'[n - 1].text = net.generate[i].text
                    /\ ~messages'[n].isUser
                    /\ messages'[n].text = reply
                    /\ SavesOf(i) = {}
                    /\ net'.save = Append(net.save, [id |-> i,
                                                     prompt |-> net.generate[i].text,
                                                     response |-> reply])
        /\ \A i \in 1..MaxEvents, ok \in BOOLEAN :
            SaveSettle(i, ok) => (messages' = messages /\ net'.save = net.save)
        /\ (handleSubmit /\ last'.out = "accepted") =>
                /\ Len(messages') = Len(messages) + 1
                /\ SubSeq(messages', 1, Len(messages)) = messages
                /\ messages'[Len(messages')].isUser
                /\ messages'[Len(messages')].text = prompt
                /\ net'.generate = Append(net.generate, [id |-> Len(submits) + 1,
                                                         text |-> prompt])
      ]_vars

\* the persistence call of an answered submit was rejected and the buffer
\* still ends with the user message and the bot message
C4_Witness ==
    /\ last.op = "saveSettle" /\ last.out = "rejected"
    /\ Len(messages) >= 2
    /\ messages[Len(messages) - 1].isUser
    /\ ~messages[Len(messages)].isUser
    /\ messages[Len(messages)].text \in Replies
    /\ SavesOf(last.id) # {}

\* C5: when the generation call of submit i returns missing or empty
\* candidates, or fails at the transport level, no bot message is appended
\* (the buffer keeps what it held), no persistence call is issued and the
\* loading flag ends false.
C5_NoReplyNoPersistence ==
    [][ \A i \in 1..MaxEvents, r \in GenResponses :
            (GenerateSettle(i, r) /\ (TransportFailure(r) \/ MissingOrEmptyCandidates(r))) =>
                /\ messages' = messages
                /\ net'.save = net.save
                /\ SavesOf(i) = {}
                /\ ~isLoading'
                /\ Completed(i)'
      ]_vars

\* a generation call has failed: the buffer ends with the unanswered user
\* message, nothing was sent to the persistence store, the flag is false
C5_Witness ==
    /\ last.op = "generateSettle" /\ last.out = "failed"
    /\ messages # <<>>
    /\ messages[Len(messages)].isUser
    /\ net.save = <<>>
    /\ ~isLoading

----------------------------------------------------------------------------
(* C6..C10 *)

\* C6: a submit made when the buffer already holds maxMessagesPerSession
\* user-authored turns leaves the buffer, the loading flag and the pending
\* input unchanged and issues no network call.
C6_SubmitAtLimitRejected ==
    [][ (handleSubmit /\ UserTurns(messages) >= maxMessagesPerSession) =>
            /\ messages' = messages
            /\ isLoading' = isLoading
            /\ prompt' = prompt
            /\ net' = net
            /\ submits' = submits
      ]_vars

\* handleSubmit has refused a non-blank prompt on a buffer of at least
\* maxMessagesPerSession user turns
C6_Witness ==
    /\ last.op = "handleSubmit" /\ last.out = "limit"
    /\ UserTurns(messages) >= maxMessagesPerSession
    /\ user
    /\ ~Blank(prompt)

\* C7: a submit with an empty or whitespace-only prompt, or made while the
\* identity is absent, leaves the buffer, the loading flag and the session
\* archive unchanged and issues no network call.
C7_BlankOrAnonymousSubmitNoOp ==
    [][ (handleSubmit /\ (Blank(prompt) \/ ~user)) =>
            /\ messages' = messages
            /\ isLoading' = isLoading
            /\ chatSessions' = chatSessions
            /\ localStorage' = localStorage
            /\ net' = net
            /\ submits' = submits
      ]_vars

\* handleSubmit has returned on a whitespace-only prompt, the identity
\* being present and the buffer below the limit
C7_Witness ==
    /\ last.op = "handleSubmit" /\ last.out = "blank"
    /\ user
    /\ prompt = <<" ">>
    /\ Len(messages) < maxMessagesPerSession

\* no two submits are pending at the same time
OneAtATime == Cardinality({ i \in 1..Len(submits) : Pending(i) }) <= 1

\* C8 as stated, for submits that do not overlap: the buffer length is odd
\* right after a submit was accepted (one is pending), even right after a
\* successful reply, and never above 2 * maxMessagesPerSession.
C8_ParityAsStated ==
    /\ (OneAtATime /\ last.op = "handleSubmit" /\ last.out = "accepted")
            => Len(messages) % 2 = 1
    /\ (OneAtATime /\ last.op = "generateSettle" /\ last.out = "reply")
            => Len(messages) % 2 = 0
    /\ Len(messages) <= 2 * maxMessagesPerSession

\* C8 as amended: the buffer length has the parity of the number of
\* unanswered user messages in the buffer, and a buffer of more than
\* maxMessagesPerSession + 1 messages holds history records only.
C8_ParityOfUnanswered ==
    /\ Len(messages) % 2 = Unanswered(messages) % 2
    /\ Len(messages) > maxMessagesPerSession + 1 => SeededOnly(messages)

\* a successful reply has left a buffer of odd length: one user message of
\* the buffer is unanswered
C8_Witness ==
    /\ last.op = "generateSettle" /\ last.out = "reply"
    /\ OneAtATime
    /\ Len(messages) % 2 = 1
    /\ Unanswered(messages) = 1

\* no two sessions of the archive are equal
NoDuplicateSessions ==
    \A i, j \in 1..Len(chatSessions) : i # j => chatSessions[i] # chatSessions[j]

\* C9: the archive never holds two equal sessions; handleNewChat appends
\* the buffer only if no equal session is archived; a second handleNewChat
\* right after a first appends nothing.
C9_ArchiveHoldsNoDuplicates ==
    /\ []NoDuplicateSessions
    /\ [][ handleNewChat =>
            /\ \/ chatSessions' = chatSessions
               \/ /\ chatSessions' = Append(chatSessions, messages)
                  /\ \A k \in 1..Len(chatSessions) : chatSessions[k] # messages
            /\ last.op = "handleNewChat" => chatSessions' = chatSessions
         ]_vars

\* handleNewChat has found the buffer, an archived session restored into
\* it, in the archive and has appended nothing
C9_Witness ==
    /\ last.op = "handleNewChat" /\ last.out = "duplicate"
    /\ Len(chatSessions) = 1
    /\ messages = <<>>

\* C10: handleNewChat on an empty buffer leaves the archive and the stored
\* "chatSessions" value unchanged, and the buffer stays empty.
C10_NewChatOnEmptyBuffer ==
    [][ (handleNewChat /\ messages = <<>>) =>
            /\ chatSessions' = chatSessions
            /\ localStorage' = localStorage
            /\ messages' = <<>>
      ]_vars

\* handleNewChat has run on an empty buffer while a session was archived
C10_Witness ==
    /\ last.op = "handleNewChat" /\ last.out = "empty"
    /\ messages = <<>>
    /\ chatSessions # <<>>
    /\ localStorage = << StringifySessions(chatSessions) >>

----------------------------------------------------------------------------
(* C11..C20 *)

\* the serialized sessions held under the key "chatSessions"
Stored(ls) == IF ls = <<>> THEN {} ELSE { ls[1][k] : k \in 1..Len(ls[1]) }

\* C11: a session that is in the persisted "chatSessions" value stays in it
\* through every later step: submits, handleNewChat calls and page reloads.
C11_ArchiveDurable ==
    [][ Stored(localStorage) \subseteq Stored(localStorage') ]_vars

\* the persisted value is the serialization of the in-memory archive
InSync ==
    localStorage = IF chatSessions = <<>> THEN <<>>
                   ELSE << StringifySessions(chatSessions) >>

\* C12: after a handleNewChat that appends a session the persisted value is
\* the serialization of the in-memory archive, and within a page load no
\* step of a submit or of handleNewChat changes one without the other: the
\* two agree in every state.
C12_PersistedMirrorsArchive ==
    /\ [][ (handleNewChat /\ chatSessions' # chatSessions) =>
               localStorage' = << StringifySessions(chatSessions') >> ]_vars
    /\ [][ (chatSessions' = chatSessions) <=> (localStorage' = localStorage) ]_vars
    /\ []InSync

\* a conversation with a submitted message has been appended and persisted
C12_Witness ==
    /\ last.op = "handleNewChat" /\ last.out = "archived"
    /\ chatSessions # <<>>
    /\ \E k \in 1..Len(chatSessions[1]) : chatSessions[1][k].timestamp.kind = "Date"
    /\ localStorage = << StringifySessions(chatSessions) >>

\* C13: a successful history fetch of n records replaces the buffer by
\* exactly 2n messages: for the k-th record a user message with its prompt,
\* then a bot message with its response, both with its timestamp.
C13_HistoryExpansion ==
    [][ \A r \in HistoryResponses :
            (HistorySettle(r) /\ r.ok) =>
                /\ Len(messages') = 2 * Len(r.data)
                /\ \A k \in 1..Len(r.data) :
                    /\ messages'[2 * k - 1] = [text |-> r.data[k].prompt,
                                               isUser |-> TRUE,
                                               timestamp |-> r.data[k].timestamp]
                    /\ messages'[2 * k] = [text |-> r.data[k].response,
                                           isUser |-> FALSE,
                                           timestamp |-> r.data[k].timestamp]
      ]_vars

\* the buffer has been seeded with several records, the first before the
\* second
C13_Witness ==
    /\ last.op = "historySettle" /\ last.out = "seeded"
    /\ Len(messages) >= 4
    /\ messages[1].timestamp # messages[3].timestamp
    /\ messages[1].timestamp = IsoString(1)

\* C14: a history fetch that fails leaves the buffer unchanged, ends
\* (nothing is thrown to the effect) and touches nothing that handleSubmit
\* reads or writes, so that submits are accepted as before.
C14_HistoryFailureSwallowed ==
    [][ \A r \in HistoryResponses :
            (HistorySettle(r) /\ ~r.ok) =>
                /\ messages' = messages
                /\ histPending' = histPending - 1
                /\ UNCHANGED <<prompt, user, isLoading, submits, chatSessions,
                               localStorage, net>>
      ]_vars

\* a history fetch has failed after a submit: the buffer still holds the
\* user message
C14_Witness ==
    /\ last.op = "historySettle" /\ last.out = "failed"
    /\ messages # <<>>
    /\ messages[Len(messages)].isUser
    /\ histPending = 0

\* C15: a history request is issued by the step that takes the identity
\* from absent to present, one per such step, and by no other step.
C15_OneFetchPerLogin ==
    [][ net'.history = net.history + (IF ~user /\ user' THEN 1 ELSE 0) ]_vars

\* the identity has become present twice and two requests were issued
C15_Witness ==
    /\ last.op = "login"
    /\ net.history = 2
    /\ user

\* the generation requests issued for submit i
GeneratesOf(i) == { k \in 1..Len(net.generate) : net.generate[k].id = i }

\* C16: every accepted submit has issued exactly one generation request and
\* at most one persistence request; a handleSubmit that returns early
\* issues none; the settling of a request issues no generation request.
C16_SingleAttempt ==
    /\ [](\A i \in 1..Len(submits) :
            /\ Cardinality(GeneratesOf(i)) = 1
            /\ Cardinality(SavesOf(i)) <= 1)
    /\ [](Len(net.generate) = Len(submits))
    /\ [][ (handleSubmit /\ submits' = submits) => net' = net ]_vars

\* a submit whose generation call failed has completed: one generation
\* request, no persistence request
C16_Witness ==
    /\ last.op = "generateSettle" /\ last.out = "failed"
    /\ Completed(last.id)
    /\ Cardinality(GeneratesOf(last.id)) = 1
    /\ SavesOf(last.id) = {}


\* the messages of a buffer
Shown(msgs) == { msgs[k] : k \in 1..Len(msgs) }

\* the user message that submit i appended
UserMessageOf(i) == submits[i].newMessages[Len(submits[i].newMessages)]

\* submit i awaits its generation response
AwaitingGeneration(i) == i \in 1..Len(submits) /\ submits[i].stage = "generate"

\* C17: the completion of one submit removes no message that another
\* pending submit appended: the user message of every other pending submit
\* that is in the buffer stays in it.
C17_OverlapKeepsMessages ==
    [][ \A i \in 1..MaxEvents, r \in GenResponses :
            GenerateSettle(i, r) =>
                \A j \in 1..Len(submits) :
                    (j # i /\ Pending(j) /\ UserMessageOf(j) \in Shown(messages))
                        => UserMessageOf(j) \in Shown(messages')
      ]_vars

\* C18: once handleNewChat has cleared the buffer, the reply of a submit
\* that was pending brings no earlier message back: it adds at most its
\* bot message.
C18_ClearedStaysCleared ==
    [][ ( /\ last.op = "handleNewChat"
          /\ messages = <<>>
          /\ \E i \in 1..MaxEvents, r \in GenResponses : GenerateSettle(i, r) )
        => /\ Len(messages') <= 1
           /\ \A m \in Shown(messages') : ~m.isUser
      ]_vars

\* C19: a history response that arrives after an accepted submit keeps the
\* user message of that submit in the buffer, and a generation reply that
\* arrives after the history seed keeps the seeded messages in the buffer.
C19_SeedAndSubmitsCoexist ==
    /\ [][ \A r \in HistoryResponses :
               (HistorySettle(r) /\ r.ok) =>
                   \A j \in 1..Len(submits) :
                       (AwaitingGeneration(j) /\ UserMessageOf(j) \in Shown(messages))
                           => UserMessageOf(j) \in Shown(messages')
         ]_vars
    /\ [][ ( /\ last.op = "historySettle" /\ last.out = "seeded"
             /\ \E i \in 1..MaxEvents, r \in GenResponses : GenerateSettle(i, r) )
           => Shown(messages) \subseteq Shown(messages')
         ]_vars

\* C20 as stated: whenever a submit awaits its generation response the
\* loading flag is true, overlapping handleSubmit invocations included.
C20_LoadingWhilePending ==
    (\E i \in 1..Len(submits) : AwaitingGeneration(i)) => isLoading

\* at most one submit is pending, and the loading flag is true while one is
Sequential ==
    /\ OneAtATime
    /\ (\E i \in 1..Len(submits) : Pending(i)) => isLoading

\* C20, amended: as long as no submit is accepted while the loading flag is
\* true (the Send button is disabled while isLoading), at most one submit
\* is pending and the flag is true whenever a submit is pending: every step
\* other than an accept under a true flag keeps this.
C20_LoadingWhilePendingSequential ==
    [][ ( /\ Sequential
          /\ (handleSubmit /\ submits' # submits) => ~isLoading )
        => Sequential'
      ]_vars

\* a second submit has been accepted after the first completed: it is
\* pending and the flag is true
C20_Witness ==
    /\ last.op = "handleSubmit" /\ last.out = "accepted"
    /\ last.id = 2
    /\ Completed(1)
    /\ AwaitingGeneration(2)
    /\ isLoading

====
